---- MODULE Spec2Model ----
(***************************************************************************)
(* Model of scripts/pick_place_demo.py: the open-loop pick and place demo  *)
(* of the Sawyer arm.                                                      *)
(*                                                                         *)
(* Lengths are in centimetres and joint angles are small integers.  The    *)
(* IK service, the arm and the gripper are external: the outcome of every  *)
(* call into them is a nondeterministic choice.  The head display calls    *)
(* (lines 222-224 and 339) change no state of the program and are left out.*)
(***************************************************************************)
EXTENDS Integers, Sequences, FiniteSets, TLC

VARIABLES
    pc,              \* position of the single thread of control
    ntask,           \* number of pick_place calls main has made
    task,            \* arguments of the current pick_place call
    wp,              \* waypoint (1..6) pick_place is working on
    pose,            \* local `pose` of pick_place
    result,          \* local `result` of pick_place
    q_initial,       \* argument `q_initial` of the current get_ik call
    ik,              \* locals of the current get_ik call
    poseLog,         \* poses passed to get_ik during this pick_place
    seedLog,         \* seeds passed to get_ik during this pick_place
    resLog,          \* results get_ik returned during this pick_place
    cmdLog,          \* arm and gripper commands issued by this pick_place
    svcCalls,        \* invocations of the IK service during this pick_place
    calibrated,      \* outcome of the gripper calibration in main
    jangles_neutral, \* local `jangles_neutral` of main
    moved,           \* some arm motion has been commanded since start-up
    lastGripper      \* the most recent gripper command since start-up

vars == <<pc, ntask, task, wp, pose, result, q_initial, ik, poseLog, seedLog,
          resLog, cmdLog, svcCalls, calibrated, jangles_neutral, moved,
          lastGripper>>

(***************************************************************************)
(* Bounds                                                                  *)
(***************************************************************************)
\* number of distinct joint solutions the IK service may answer with
NumSolutions == 2
\* number of distinct readings limb.joint_angles() may give
NumReadings == 2
\* result codes of the IK service range over -MaxCode..MaxCode
MaxCode == 1

(***************************************************************************)
(* Joint configurations                                                    *)
(***************************************************************************)
JointNames == <<"right_j0", "right_j1", "right_j2", "right_j3",
                "right_j4", "right_j5", "right_j6">>

\* the dictionary {}
EmptyDict == [n \in {} |-> 0]

Min(a, b) == IF a < b THEN a ELSE b

\* dict(zip(names, position)): pairs up to the shorter length, last pair wins
DictZip(names, position) ==
    LET len  == Min(Len(names), Len(position))
        keys == {names[i] : i \in 1..len}
    IN  [n \in keys |->
            position[CHOOSE i \in 1..len :
                        /\ names[i] = n
                        /\ \A j \in (i+1)..len : names[j] # n]]

\* class JointResult: the attributes of a fresh instance
JointResult == [jangles |-> EmptyDict, valid |-> FALSE]

\* the joint angles the IK service may compute for the 7 joints of the arm
Solutions == {[i \in 1..7 |-> 10 * s + i] : s \in 1..NumSolutions}
ResultCodes == (0 - MaxCode)..MaxCode

\* ik_response.joints[0]: get_ik puts no condition on it (lines 125-126), so
\* the service may name all 7 joints, only the first n of them, or none
Answers == {[name     |-> SubSeq(JointNames, 1, n),
             position |-> SubSeq(p, 1, n)] : n \in 0..7, p \in Solutions}

\* ik_response: a result code together with a joint state
Responses == {[result_type |-> c, name |-> a.name, position |-> a.position] :
                 c \in ResultCodes, a \in Answers}

\* the readings of limb.joint_angles()
Readings == {DictZip(JointNames, [i \in 1..7 |-> 100 * r + i]) :
                r \in 1..NumReadings}

\* get_ik, lines 98-105: true iff building the seed raises no KeyError
HasSeedKeys(q) == \A i \in 1..7 : JointNames[i] \in DOMAIN q

\* get_ik, lines 101-104: seed.position
SeedPosition(q) == [i \in 1..7 |-> q[JointNames[i]]]

\* get_ik, line 117: the validity test on the result code
\* (variant: code 0 accepted as well)
IsValidCodeNonNeg(c) == c >= 0
IsValidCode(c) == c > 0

(***************************************************************************)
(* Transfer tasks                                                          *)
(***************************************************************************)
\* quaternionFromAxisAngle(180.0, (0.0, 1.0, 0.0)), as (w, x, y, z)
QuatY180 == <<0, 0, 1, 0>>
QuatIdentity == <<1, 0, 0, 0>>

nsteps == 5
MAX_POSITION == 1000
dgripper == MAX_POSITION \div nsteps
gripper_opening == (35 * dgripper) \div 10
z_pre_grasp == 20

DemoPoses ==
    << <<(<<60, 50, 3>>), (<<60, -50, 2>>)>>,
       <<(<<60, 40, 3>>), (<<60, -42, 2>>)>>,
       <<(<<60, 32, 3>>), (<<60, -34, 2>>)>>,
       <<(<<70, 50, 3>>), (<<60, -46, 12>>)>>,
       <<(<<70, 40, 3>>), (<<60, -38, 12>>)>>,
       <<(<<70, 32, 3>>), (<<60, -42, 22>>)>> >>

NumTasks == Len(DemoPoses)

\* the arguments of the k-th pick_place call of main
DemoTask(k, qinit) ==
    [pose_initial    |-> <<DemoPoses[k][1], QuatY180>>,
     pose_final      |-> <<DemoPoses[k][2], QuatY180>>,
     gripper_opening |-> gripper_opening,
     zpre_grasp      |-> z_pre_grasp,
     qinit           |-> qinit]

NoTask == DemoTask(1, EmptyDict)

\* pick_place: the pose of waypoint w (lines 165, 170, 180, 185, 190, 200)
\* (variant: the lift of waypoint 3 already takes the final orientation)
WaypointLateQuat(t, w) ==
    LET pi == t.pose_initial[1]
        pf == t.pose_final[1]
        h  == t.zpre_grasp
    IN  CASE w = 1 -> << <<pi[1], pi[2], pi[3] + h>>, t.pose_initial[2] >>
          [] w = 2 -> << <<pi[1], pi[2], pi[3]>>,     t.pose_initial[2] >>
          [] w = 3 -> << <<pi[1], pi[2], pi[3] + h>>, t.pose_final[2] >>
          [] w = 4 -> << <<pf[1], pf[2], pf[3] + h>>, t.pose_final[2] >>
          [] w = 5 -> << <<pf[1], pf[2], pf[3]>>,     t.pose_final[2] >>
          [] w = 6 -> << <<pf[1], pf[2], pf[3] + h>>, t.pose_final[2] >>
Waypoint(t, w) ==
    LET xi == t.pose_initial[1][1]
        yi == t.pose_initial[1][2]
        zi == t.pose_initial[1][3]
        quat_i == t.pose_initial[2]
        xf == t.pose_final[1][1]
        yf == t.pose_final[1][2]
        zf == t.pose_final[1][3]
        quat_f == t.pose_final[2]
        zpre_grasp == t.zpre_grasp
    IN  CASE w = 1 -> << <<xi, yi, zi + zpre_grasp>>, quat_i >>
          [] w = 2 -> << <<xi, yi, zi>>,              quat_i >>
          [] w = 3 -> << <<xi, yi, zi + zpre_grasp>>, quat_i >>
          [] w = 4 -> << <<xf, yf, zf + zpre_grasp>>, quat_f >>
          [] w = 5 -> << <<xf, yf, zf>>,              quat_f >>
          [] w = 6 -> << <<xf, yf, zf + zpre_grasp>>, quat_f >>

\* pick_place: the seed argument of the get_ik call of waypoint w
\* (qinit at line 166, result.jangles at lines 171, 181, 186, 191, 201)
\* (variant: every solve is seeded with qinit)
SeedForAlwaysQinit(t, w, res) == t.qinit
SeedFor(t, w, res) == IF w = 1 THEN t.qinit ELSE res.jangles

\* pick_place: `if (result.valid)` before every move_to_joint_positions
\* (variants: the test dropped, the test negated)
ShouldMoveAlways(res) == TRUE
ShouldMoveInverted(res) == ~res.valid
ShouldMove(res) == res.valid

\* pick_place: the gripper command that follows the move of waypoint w
\* (variant: each gripper command one waypoint later)
GripperAfterLate(w) ==
    IF w = 3 THEN "close" ELSE IF w = 6 THEN "open" ELSE "none"
GripperAfter(w) ==
    IF w = 2 THEN "close" ELSE IF w = 5 THEN "open" ELSE "none"

NoIk == [wait |-> "none", call |-> "none", result_type |-> 0,
         seed_position |-> <<>>, invocations |-> 0]

MoveCmd(w, q) == [kind |-> "move", wp |-> w, jangles |-> q, opening |-> 0]
GripperCmd(k, w, g) ==
    [kind |-> k, wp |-> w, jangles |-> EmptyDict, opening |-> g]

(***************************************************************************)
(* Initial states                                                          *)
(***************************************************************************)
InitLocals ==
    /\ wp = 1
    /\ pose = Waypoint(NoTask, 1)
    /\ result = JointResult
    /\ q_initial = EmptyDict
    /\ ik = NoIk
    /\ poseLog = <<>>
    /\ seedLog = <<>>
    /\ resLog = <<>>
    /\ cmdLog = <<>>
    /\ svcCalls = 0

\* the process has just started main()
Init ==
    /\ pc = "main_start"
    /\ ntask = 0
    /\ task = NoTask
    /\ InitLocals
    /\ calibrated = "none"
    /\ jangles_neutral = EmptyDict
    /\ moved = FALSE
    /\ lastGripper = "none"

\* transfer tasks other than the six of the demo
Quats == {QuatY180, QuatIdentity}
Clearances == {0, z_pre_grasp}
TaskInputs ==
    {[pose_initial    |-> <<DemoPoses[k][1], qs>>,
      pose_final      |-> <<DemoPoses[k][2], qe>>,
      gripper_opening |-> gripper_opening,
      zpre_grasp      |-> h,
      qinit           |-> q] :
        k \in 1..NumTasks, qs \in Quats, qe \in Quats, h \in Clearances,
        q \in Readings}

\* pick_place has just been called with an arbitrary transfer task
InitTask ==
    /\ pc = "pp_ik"
    /\ ntask = 0
    /\ task \in TaskInputs
    /\ InitLocals
    /\ calibrated = "ok"
    /\ jangles_neutral = task.qinit
    /\ moved = TRUE
    /\ lastGripper = "open"

(***************************************************************************)
(* get_ik                                                                  *)
(***************************************************************************)
pp_vars == <<ntask, task, calibrated, jangles_neutral>>

\* pick_place: pose = ...; result = get_ik(pose, seed) -- the call itself
\* (lines 165-166, 170-171, 180-181, 185-186, 190-191, 200-201) and
\* get_ik up to line 97
CallGetIk ==
    /\ pc = "pp_ik"
    /\ pose' = Waypoint(task, wp)
    /\ q_initial' = SeedFor(task, wp, result)
    /\ poseLog' = Append(poseLog, pose')
    /\ seedLog' = Append(seedLog, q_initial')
    /\ ik' = NoIk
    /\ pc' = "ik_seed"
    /\ UNCHANGED <<pp_vars, wp, result, resLog, cmdLog, svcCalls, moved,
                   lastGripper>>

\* get_ik, lines 98-105: the seed is read out of q_initial by joint name; a
\* missing name raises KeyError, which nothing catches
BuildSeed ==
    /\ pc = "ik_seed"
    /\ IF HasSeedKeys(q_initial)
       THEN /\ ik' = [ik EXCEPT !.seed_position = SeedPosition(q_initial)]
            /\ pc' = "ik_wait"
       ELSE /\ ik' = ik
            /\ pc' = "crashed"
    /\ UNCHANGED <<pp_vars, wp, pose, result, q_initial, poseLog, seedLog,
                   resLog, cmdLog, svcCalls, moved, lastGripper>>

\* get_ik returns res to pick_place
ReturnFromGetIk(res) ==
    /\ result' = res
    /\ resLog' = Append(resLog, res)
    /\ pc' = "pp_move"

\* get_ik, lines 109 and 112-114: rospy.wait_for_service(serv_name, 5.0)
\* (variant: the service is invoked even when the wait timed out)
WaitForServiceThenCall ==
    /\ pc = "ik_wait"
    /\ \E available \in BOOLEAN :
          /\ ik' = [ik EXCEPT !.wait = IF available THEN "ok" ELSE "timeout"]
          /\ pc' = "ik_call"
          /\ UNCHANGED <<result, resLog>>
    /\ UNCHANGED <<pp_vars, wp, pose, q_initial, poseLog, seedLog, cmdLog,
                   svcCalls, moved, lastGripper>>
WaitForService ==
    /\ pc = "ik_wait"
    /\ \E available \in BOOLEAN :
          IF available
          THEN /\ ik' = [ik EXCEPT !.wait = "ok"]
               /\ pc' = "ik_call"
               /\ UNCHANGED <<result, resLog>>
          ELSE /\ ik' = [ik EXCEPT !.wait = "timeout"]
               /\ ReturnFromGetIk(JointResult)
    /\ UNCHANGED <<pp_vars, wp, pose, q_initial, poseLog, seedLog, cmdLog,
                   svcCalls, moved, lastGripper>>

\* get_ik, lines 111 and 112-114: ik_response = ik_client(ik_request)
CallService ==
    /\ pc = "ik_call"
    /\ svcCalls' = svcCalls + 1
    /\ \/ \E resp \in Responses :
             /\ ik' = [ik EXCEPT !.call = "resp",
                                 !.result_type = resp.result_type,
                                 !.invocations = @ + 1]
             /\ IF IsValidCode(resp.result_type)
                THEN ReturnFromGetIk(
                        [jangles |-> DictZip(resp.name, resp.position),
                         valid   |-> TRUE])
                ELSE ReturnFromGetIk(JointResult)
       \/ /\ ik' = [ik EXCEPT !.call = "fault", !.invocations = @ + 1]
          /\ ReturnFromGetIk(JointResult)
    /\ UNCHANGED <<pp_vars, wp, pose, q_initial, poseLog, seedLog, cmdLog,
                   moved, lastGripper>>

(***************************************************************************)
(* pick_place                                                              *)
(***************************************************************************)
\* where pick_place continues after the step of waypoint w is complete
Advance(w) ==
    IF w = 6
    THEN pc' = "pp_done" /\ wp' = w
    ELSE pc' = "pp_ik" /\ wp' = w + 1

\* pick_place: if (result.valid): limb.move_to_joint_positions(result.jangles)
\* (lines 167-168, 172-173, 182-183, 187-188, 192-193, 202-203)
MoveIfValid ==
    /\ pc = "pp_move"
    /\ IF ShouldMove(result)
       THEN /\ cmdLog' = Append(cmdLog, MoveCmd(wp, result.jangles))
            /\ moved' = TRUE
       ELSE UNCHANGED <<cmdLog, moved>>
    /\ IF GripperAfter(wp) # "none"
       THEN pc' = "pp_gripper" /\ wp' = wp
       ELSE Advance(wp)
    /\ UNCHANGED <<pp_vars, pose, result, q_initial, ik, poseLog, seedLog,
                   resLog, svcCalls, lastGripper>>

\* pick_place, lines 175-176: gripper.set_position(gripper_opening); sleep
CloseGripper ==
    /\ pc = "pp_gripper"
    /\ GripperAfter(wp) = "close"
    /\ cmdLog' = Append(cmdLog, GripperCmd("close", wp, task.gripper_opening))
    /\ lastGripper' = "close"
    /\ Advance(wp)
    /\ UNCHANGED <<pp_vars, pose, result, q_initial, ik, poseLog, seedLog,
                   resLog, svcCalls, moved>>

\* pick_place, lines 195-196: gripper.open(); sleep
OpenGripper ==
    /\ pc = "pp_gripper"
    /\ GripperAfter(wp) = "open"
    /\ cmdLog' = Append(cmdLog, GripperCmd("open", wp, 0))
    /\ lastGripper' = "open"
    /\ Advance(wp)
    /\ UNCHANGED <<pp_vars, pose, result, q_initial, ik, poseLog, seedLog,
                   resLog, svcCalls, moved>>

(***************************************************************************)
(* main                                                                    *)
(***************************************************************************)
pp_locals == <<wp, pose, result, q_initial, ik, poseLog, seedLog, resLog,
               cmdLog, svcCalls>>

\* main, lines 212-219: the gripper is set up and calibrated; ValueError
\* (no gripper detected) makes main return
\* (variant: the ValueError is swallowed and main goes on)
CalibrateIgnoringFailure ==
    /\ pc = "main_start"
    /\ \E detected \in BOOLEAN :
          calibrated' = IF detected THEN "ok" ELSE "failed"
    /\ pc' = "main_neutral"
    /\ UNCHANGED <<ntask, task, pp_locals, jangles_neutral, moved,
                   lastGripper>>
Calibrate ==
    /\ pc = "main_start"
    /\ \E detected \in BOOLEAN :
          IF detected
          THEN calibrated' = "ok" /\ pc' = "main_neutral"
          ELSE calibrated' = "failed" /\ pc' = "halted"
    /\ UNCHANGED <<ntask, task, pp_locals, jangles_neutral, moved,
                   lastGripper>>

\* main, line 227: limb.move_to_neutral()
MoveToNeutral ==
    /\ pc = "main_neutral"
    /\ moved' = TRUE
    /\ pc' = "main_angles"
    /\ UNCHANGED <<ntask, task, pp_locals, calibrated, jangles_neutral,
                   lastGripper>>

\* main, line 228: jangles_neutral = limb.joint_angles()
ReadJointAngles ==
    /\ pc = "main_angles"
    /\ jangles_neutral' \in Readings
    /\ pc' = "main_open"
    /\ UNCHANGED <<ntask, task, pp_locals, calibrated, moved, lastGripper>>

\* main, line 231: gripper.open()
\* (variant: the gripper is not opened after the calibration)
MainOpenGripperSkipped ==
    /\ pc = "main_open"
    /\ pc' = "main_tasks"
    /\ UNCHANGED <<ntask, task, pp_locals, calibrated, jangles_neutral,
                   moved, lastGripper>>
MainOpenGripper ==
    /\ pc = "main_open"
    /\ lastGripper' = "open"
    /\ pc' = "main_tasks"
    /\ UNCHANGED <<ntask, task, pp_locals, calibrated, jangles_neutral,
                   moved>>

\* main, lines 275, 286, 298, 309, 321, 332: the next pick_place call
\* (variant: a later task is seeded with the configuration the previous task
\* ended in)
CallPickPlaceCarrySeed ==
    /\ \/ pc = "main_tasks" /\ ntask = 0
       \/ pc = "pp_done" /\ ntask \in 1..(NumTasks - 1)
    /\ ntask' = ntask + 1
    /\ task' = DemoTask(ntask + 1,
                        IF ntask > 0 /\ result.valid
                        THEN result.jangles ELSE jangles_neutral)
    /\ wp' = 1
    /\ poseLog' = <<>>
    /\ seedLog' = <<>>
    /\ resLog' = <<>>
    /\ cmdLog' = <<>>
    /\ svcCalls' = 0
    /\ pc' = "pp_ik"
    /\ UNCHANGED <<pose, result, q_initial, ik, calibrated, jangles_neutral,
                   moved, lastGripper>>
CallPickPlace ==
    /\ \/ pc = "main_tasks" /\ ntask = 0
       \/ pc = "pp_done" /\ ntask \in 1..(NumTasks - 1)
    /\ ntask' = ntask + 1
    /\ task' = DemoTask(ntask + 1, jangles_neutral)
    /\ wp' = 1
    /\ poseLog' = <<>>
    /\ seedLog' = <<>>
    /\ resLog' = <<>>
    /\ cmdLog' = <<>>
    /\ svcCalls' = 0
    /\ pc' = "pp_ik"
    /\ UNCHANGED <<pose, result, q_initial, ik, calibrated, jangles_neutral,
                   moved, lastGripper>>

\* main, line 334: limb.move_to_neutral() after the last task
FinalMoveToNeutral ==
    /\ pc = "pp_done"
    /\ ntask = NumTasks
    /\ moved' = TRUE
    /\ pc' = "main_end_angles"
    /\ UNCHANGED <<ntask, task, pp_locals, calibrated, jangles_neutral,
                   lastGripper>>

\* main, line 335: jangles_neutral = limb.joint_angles()
FinalReadJointAngles ==
    /\ pc = "main_end_angles"
    /\ jangles_neutral' \in Readings
    /\ pc' = "main_done"
    /\ UNCHANGED <<ntask, task, pp_locals, calibrated, moved, lastGripper>>

(***************************************************************************)
(* Specifications                                                          *)
(***************************************************************************)
\* one call of pick_place
NextTask ==
    \/ CallGetIk
    \/ BuildSeed
    \/ WaitForService
    \/ CallService
    \/ MoveIfValid
    \/ CloseGripper
    \/ OpenGripper

\* the demo: main and the six calls of pick_place it makes
Next ==
    \/ Calibrate
    \/ MoveToNeutral
    \/ ReadJointAngles
    \/ MainOpenGripper
    \/ CallPickPlace
    \/ FinalMoveToNeutral
    \/ FinalReadJointAngles
    \/ CallGetIk
    \/ BuildSeed
    \/ WaitForService
    \/ CallService
    \/ MoveIfValid
    \/ CloseGripper
    \/ OpenGripper

Spec == Init /\ [][Next]_vars
SpecTask == InitTask /\ [][NextTask]_vars

(***************************************************************************)
(* Properties                                                              *)
(***************************************************************************)
Kinds(log) == [i \in DOMAIN log |-> log[i].kind]
MovesOf(w) == {a \in DOMAIN cmdLog :
                  cmdLog[a].kind = "move" /\ cmdLog[a].wp = w}
CmdsOf(k) == {a \in DOMAIN cmdLog : cmdLog[a].kind = k}

\* C1: if the IK solve of waypoint i (1..5) returns invalid, the seed passed
\* to the solve of waypoint i+1 equals the seed passed to the solve of
\* waypoint i.
C1_SeedUnchangedAfterInvalid ==
    \A i \in 1..5 :
        (Len(seedLog) >= i + 1 /\ ~resLog[i].valid)
            => seedLog[i + 1] = seedLog[i]

\* C2: IK failures never terminate the run: whatever the IK outcomes, the
\* program is never ended by an error after an invalid solve.
C2_FailuresNeverTerminate ==
    (\E i \in DOMAIN resLog : ~resLog[i].valid) => pc # "crashed"

\* C3: if the IK solve of waypoint i returns invalid, no arm motion command
\* is issued for waypoint i.
C3_NoMoveWhenInvalid ==
    \A i \in DOMAIN resLog : ~resLog[i].valid => MovesOf(i) = {}

C3_Witness ==
    /\ pc = "pp_done"
    /\ ~resLog[6].valid
    /\ Len(cmdLog) = 7

\* C4: after a valid IK solve at waypoint i (1..5), the seed passed to the
\* solve of waypoint i+1 is exactly the configuration that solve returned,
\* and the seed angles of the request are its seven angles.
C4_SeedIsPreviousSolution ==
    /\ \A i \in 1..5 :
          (Len(seedLog) >= i + 1 /\ resLog[i].valid)
              => seedLog[i + 1] = resLog[i].jangles
    /\ (pc \in {"ik_wait", "ik_call"} /\ wp > 1 /\ resLog[wp - 1].valid)
          => \A k \in 1..7 :
                ik.seed_position[k] = resLog[wp - 1].jangles[JointNames[k]]

C4_Witness ==
    /\ pc = "ik_wait"
    /\ wp = 2
    /\ resLog[1].valid
    /\ seedLog[2] # task.qinit

\* C5: gripper close comes strictly after the move of waypoint 2 (if issued)
\* and strictly before the move of waypoint 3; gripper open comes strictly
\* after the move of waypoint 5 and strictly before the move of waypoint 6.
C5_GripperOrdering ==
    /\ \A a \in MovesOf(2) : \A b \in CmdsOf("close") : a < b
    /\ \A b \in MovesOf(3) : \E a \in CmdsOf("close") : a < b
    /\ \A a \in CmdsOf("close") : \A b \in MovesOf(3) : a < b
    /\ \A a \in MovesOf(5) : \A b \in CmdsOf("open") : a < b
    /\ \A b \in MovesOf(6) : \E a \in CmdsOf("open") : a < b
    /\ \A a \in CmdsOf("open") : \A b \in MovesOf(6) : a < b

C5_Witness ==
    /\ pc = "pp_done"
    /\ \A w \in {2, 3, 5, 6} : MovesOf(w) # {}
    /\ CmdsOf("close") # {}
    /\ CmdsOf("open") # {}

\* C6: if the gripper calibration fails, the run halts and no arm motion of
\* any kind is ever issued.
C6_NoMotionWithoutGripper ==
    calibrated = "failed" => (pc = "halted" /\ ~moved /\ cmdLog = <<>>)

C6_Witness == calibrated = "failed" /\ pc = "halted"

\* C7: if all six IK solves of a task are valid, pick_place issues exactly
\* move, move, close(opening), move, move, move, open, move.
C7_AllValidCommandSequence ==
    (pc = "pp_done" /\ \A i \in 1..6 : resLog[i].valid)
        => /\ Kinds(cmdLog) = <<"move", "move", "close", "move", "move",
                                "move", "open", "move">>
           /\ cmdLog[3].opening = task.gripper_opening
           /\ <<cmdLog[1].wp, cmdLog[2].wp, cmdLog[4].wp, cmdLog[5].wp,
                cmdLog[6].wp, cmdLog[8].wp>> = <<1, 2, 3, 4, 5, 6>>

C7_Witness ==
    /\ pc = "pp_done"
    /\ \A i \in 1..6 : resLog[i].valid
    /\ Len(cmdLog) = 8
    /\ ntask = NumTasks

\* the six poses of the claim for start (ps, qs), end (pe, qe), clearance h
PlanOf(t) ==
    LET ps == t.pose_initial[1]
        qs == t.pose_initial[2]
        pe == t.pose_final[1]
        qe == t.pose_final[2]
        h  == t.zpre_grasp
    IN  << << <<ps[1], ps[2], ps[3] + h>>, qs >>,
           << <<ps[1], ps[2], ps[3]>>,     qs >>,
           << <<ps[1], ps[2], ps[3] + h>>, qs >>,
           << <<pe[1], pe[2], pe[3] + h>>, qe >>,
           << <<pe[1], pe[2], pe[3]>>,     qe >>,
           << <<pe[1], pe[2], pe[3] + h>>, qe >> >>

\* C8: for any transfer task the poses submitted to the IK solve are exactly
\* the six poses of the plan, in order.
C8_ExactlySixPoses ==
    pc \in {"pp_done", "crashed"} => poseLog = PlanOf(task)

\* what holds of the poses in every run: they are the first poses of the
\* plan, and all six of them when pick_place returns
PosesArePrefixOfPlan ==
    /\ Len(poseLog) <= 6
    /\ \A i \in DOMAIN poseLog : poseLog[i] = PlanOf(task)[i]
    /\ pc = "pp_done" => Len(poseLog) = 6

\* C9: get_ik returns valid=true iff the service became available, the
\* invocation raised no fault and the result code is > 0.
C9_ValidIffPositiveCode ==
    pc = "pp_move" =>
        (result.valid <=> (/\ ik.wait = "ok"
                           /\ ik.call = "resp"
                           /\ ik.result_type > 0))

C9_Witness ==
    /\ pc = "pp_move"
    /\ ik.wait = "ok"
    /\ ik.call = "resp"
    /\ ik.result_type = 0
    /\ ~result.valid

\* C10: a get_ik call invokes the IK service at most once, only after the
\* wait for the service succeeded; one pick_place makes at most six
\* invocations, at most one per solve.
C10_SingleAttempt ==
    /\ ik.invocations <= 1
    /\ ik.invocations = 1 => ik.wait = "ok"
    /\ ik.wait = "timeout" => ik.invocations = 0
    /\ svcCalls <= 6
    /\ svcCalls <= Len(seedLog)

C10_Witness ==
    /\ pc = "pp_done"
    /\ ik.wait = "timeout"
    /\ ik.invocations = 0
    /\ svcCalls = 5

\* C11: a result of get_ik with valid=false carries the empty configuration,
\* never one left over from an earlier solve or from the response; a result
\* with valid=true carries an angle for each of the 7 joints right_j0..j6.
C11_ResultShape ==
    \A i \in DOMAIN resLog :
        IF resLog[i].valid
        THEN DOMAIN resLog[i].jangles = {JointNames[k] : k \in 1..7}
        ELSE resLog[i].jangles = EmptyDict

\* what holds of the results in every run: an invalid one is empty, and a
\* valid one has the joints that the answer of the service named
ResultCarriesAnswer ==
    /\ \A i \in DOMAIN resLog :
          ~resLog[i].valid => resLog[i].jangles = EmptyDict
    /\ (pc = "pp_move" /\ result.valid)
          => DOMAIN result.jangles \subseteq {JointNames[k] : k \in 1..7}

\* C12: in every execution of pick_place, whatever the IK outcomes, the
\* gripper is commanded to close to the task's opening exactly once and to
\* open exactly once, close before open.
C12_GripperOnceEach ==
    pc \in {"pp_done", "crashed"} =>
        /\ Cardinality(CmdsOf("close")) = 1
        /\ Cardinality(CmdsOf("open")) = 1
        /\ \A a \in CmdsOf("close") :
              /\ cmdLog[a].opening = task.gripper_opening
              /\ \A b \in CmdsOf("open") : a < b

\* what holds of the gripper in every pick_place that returns
GripperOnceEachOnReturn ==
    pc = "pp_done" =>
        /\ Cardinality(CmdsOf("close")) = 1
        /\ Cardinality(CmdsOf("open")) = 1
        /\ \A a \in CmdsOf("close") : \A b \in CmdsOf("open") : a < b

\* C13: every arm motion command of pick_place carries the configuration
\* returned by the valid IK solve of the same waypoint: never the result of
\* an invalid solve and never an empty configuration.
C13_MoveCarriesOwnSolution ==
    \A a \in DOMAIN cmdLog :
        cmdLog[a].kind = "move" =>
            /\ cmdLog[a].wp \in DOMAIN resLog
            /\ resLog[cmdLog[a].wp].valid
            /\ cmdLog[a].jangles = resLog[cmdLog[a].wp].jangles
            /\ cmdLog[a].jangles # EmptyDict

\* what holds of the moves in every run: each carries the configuration of
\* the valid result of its own waypoint, whatever joints that result has
MoveCarriesResultOfWaypoint ==
    \A a \in DOMAIN cmdLog :
        cmdLog[a].kind = "move" =>
            /\ cmdLog[a].wp \in DOMAIN resLog
            /\ resLog[cmdLog[a].wp].valid
            /\ cmdLog[a].jangles = resLog[cmdLog[a].wp].jangles

\* C14: the seed does not carry across tasks: waypoint 1 of every pick_place
\* call is solved from the task's own qinit, pick_place never changes qinit,
\* and every task of the demo gets the same neutral configuration, the one
\* read before the first task, wherever the previous task ended.
C14_SeedNotCarried ==
    [][/\ Len(seedLog') >= 1 => seedLog'[1] = task'.qinit
       /\ (ntask >= 1 /\ ntask' >= 1) => task'.qinit = task.qinit
       /\ (ntask' >= 1 /\ pc' # "main_done")
             => task'.qinit = jangles_neutral']_vars

C14_Witness ==
    /\ ntask = NumTasks
    /\ pc = "ik_seed"
    /\ wp = 1
    /\ q_initial = jangles_neutral
    /\ result.valid
    /\ result.jangles # q_initial

\* C15: whenever a transfer task of the demo begins, the most recent gripper
\* command is open; so it is whenever pick_place has returned.
C15_TaskStartsOpen ==
    /\ (ntask >= 1 /\ pc = "pp_ik" /\ wp = 1) => lastGripper = "open"
    /\ pc = "pp_done" => lastGripper = "open"

C15_Witness ==
    /\ ntask = 2
    /\ pc = "pp_ik"
    /\ wp = 1
    /\ lastGripper = "open"
    /\ calibrated = "ok"

====
